---- MODULE Spec2Model ----
(***************************************************************************)
(* The expectation-matching engine of melatonin (packages expect and mt):  *)
(* ValueForKey / expect and their comparators, Bind, Predicate, and the    *)
(* header matchers Headers / expectHeaders.                                *)
(*                                                                         *)
(* A Go interface{} value is a pair <<type, payload>>.  The type tags are  *)
(* the Go dynamic types the type switches of the code distinguish.         *)
(***************************************************************************)
EXTENDS Integers, Sequences, FiniteSets, TLC

VARIABLES pc, op, key, expected, actual, exact, targets, result,
          hexpected, hactual

vars == <<pc, op, key, expected, actual, exact, targets, result,
          hexpected, hactual>>

(***************************************************************************)
(* Bounds of the model.                                                    *)
(***************************************************************************)
\* the largest length of a generated array
MaxLen == 2
\* the largest number of values of one header
MaxVals == 2

(***************************************************************************)
(* Go values.                                                              *)
(***************************************************************************)
Val(t, p) == <<t, p>>
TypeOf(x) == x[1]
Payload(x) == x[2]

Nil == Val("nil", "")
Str(s) == Val("string", s)
Bool(b) == Val("bool", b)

\* Integers and floats hold non-negative whole numbers below 2^54, written
\* in two limbs hi * 2^27 + lo, so that values on both sides of 2^53, where
\* float64 stops holding every integer, are within reach.
Limb == 2 ^ 27
Whole(hi, lo) == <<"num", hi, lo>>
NaN == <<"nan", 0, 0>>
Small(n) == Whole(0, n)

Float64(f) == Val("float64", f)
Int64(n) == Val("int64", n)
GoInt(n) == Val("int", n)

\* Go's == on float64: NaN equals nothing, itself included.
FloatEq(f, g) == f[1] = "num" /\ g[1] = "num" /\ f = g

\* Go's float64(int64): exact below 2^53; from 2^53 on only even numbers
\* are representable and the conversion rounds to nearest, ties to even.
ToFloat64(n) ==
    LET hi == n[2]
        lo == n[3]
    IN  IF hi < 2 ^ 26 \/ lo % 2 = 0 THEN Whole(hi, lo)
        ELSE IF lo % 4 = 1 THEN Whole(hi, lo - 1)
        ELSE IF lo + 1 = Limb THEN Whole(hi + 1, 0)
        ELSE Whole(hi, lo + 1)

\* CustomPredicateForKey values: <<constructor, argument>>.
PredicateLeaf(fn) == Val("CustomPredicateForKey", <<"Predicate", fn>>)
BindLeaf(tk) == Val("CustomPredicateForKey", <<"Bind", tk>>)
\* mt's predicate leaves: func(interface{}) bool
MtPredicate(fn) == Val("func(interface{}) bool", fn)

Map(f) == Val("map[string]interface {}", f)
Slice(s) == Val("[]interface {}", s)
\* the named types json.Object and json.Array of an expected value
Object(f) == Val("Object", f)
Array(s) == Val("Array", s)

EmptyMap == [k \in {} |-> Nil]

\* m[k] of a Go map: the zero value (nil) for an absent key
MapIndex(m, k) == IF k \in DOMAIN m THEN m[k] ELSE Nil

(***************************************************************************)
(* Errors: <<kind, key, expected, actual>>.  key is the path the message   *)
(* carries ("" when the message names none).                               *)
(***************************************************************************)
Err(kind, k, e, a) == <<kind, k, e, a>>
ErrKind(e) == e[1]
ErrKey(e) == e[2]

\* "%T" of the actual, or "nothing"
wrongTypeError(k, e, a) ==
    Err("WrongType", k, TypeOf(e),
        IF e # Nil /\ a = Nil THEN "nothing" ELSE TypeOf(a))

wrongValueError(k, e, a) == Err("WrongValue", k, e, a)

failedPredicateError(k, msg) == Err("PredicateFailed", k, msg, "")

\* the nil error
NoError == <<>>
ErrList(err) == IF err = NoError THEN <<>> ELSE <<err>>

(***************************************************************************)
(* Bind targets: one caller-owned variable per pointer type.               *)
(***************************************************************************)
ScalarTargets == {"*string", "*float64", "*int64", "*bool"}
TargetKinds == ScalarTargets \cup {"*interface{}"}

InitTargets ==
    [tk \in TargetKinds |->
        CASE tk = "*string" -> Str("")
          [] tk = "*float64" -> Float64(Small(0))
          [] tk = "*int64" -> Int64(Small(0))
          [] tk = "*bool" -> Bool(FALSE)
          [] OTHER -> Nil]

\* json.Marshal followed by json.Unmarshal into an interface{}:
\* <<TRUE, value>>, or <<FALSE, Nil>> when a step fails.  Numbers come back
\* as float64; NaN and functions cannot be marshalled.
RECURSIVE jsonRoundTrip(_)
jsonRoundTrip(a) ==
    LET t == TypeOf(a)
        p == Payload(a)
    IN  CASE t \in {"nil", "string", "bool"} -> <<TRUE, a>>
          [] t = "float64" -> IF p = NaN THEN <<FALSE, Nil>> ELSE <<TRUE, a>>
          [] t \in {"int", "int64"} -> <<TRUE, Float64(ToFloat64(p))>>
          [] t \in {"map[string]interface {}", "Object"} ->
                IF \A k \in DOMAIN p : jsonRoundTrip(p[k])[1]
                THEN <<TRUE, Map([k \in DOMAIN p |-> jsonRoundTrip(p[k])[2]])>>
                ELSE <<FALSE, Nil>>
          [] t \in {"[]interface {}", "Array"} ->
                IF \A i \in 1..Len(p) : jsonRoundTrip(p[i])[1]
                THEN <<TRUE, Slice([i \in 1..Len(p) |-> jsonRoundTrip(p[i])[2]])>>
                ELSE <<FALSE, Nil>>
          [] OTHER -> <<FALSE, Nil>>

\* Bind assigning the asserted value before it tests ok: a mismatch leaves
\* the zero value of the target's type in a scalar target
Bind_AssignBeforeCheck(tk, k, a, tgt) ==
    IF tk \in ScalarTargets
    THEN IF TypeOf(a) = TypeOf(InitTargets[tk])
         THEN <<NoError, [tgt EXCEPT ![tk] = a]>>
         ELSE <<Err("BindFailed", "", TypeOf(InitTargets[tk]), TypeOf(a)),
                [tgt EXCEPT ![tk] = InitTargets[tk]]>>
    ELSE LET rt == jsonRoundTrip(a)
         IN  IF ~rt[1]
             THEN <<Err("BindFailed", "", tk, TypeOf(a)), tgt>>
             ELSE <<NoError, [tgt EXCEPT ![tk] = rt[2]]>>

\* Bind(target)(key, actual): <<error, targets after the call>>
Bind(tk, k, a, tgt) ==
    CASE tk = "*string" ->
            IF TypeOf(a) # "string"
            THEN <<Err("BindFailed", "", "string", TypeOf(a)), tgt>>
            ELSE <<NoError, [tgt EXCEPT ![tk] = a]>>
      [] tk = "*float64" ->
            IF TypeOf(a) # "float64"
            THEN <<Err("BindFailed", "", "float64", TypeOf(a)), tgt>>
            ELSE <<NoError, [tgt EXCEPT ![tk] = a]>>
      [] tk = "*int64" ->
            IF TypeOf(a) # "int64"
            THEN <<Err("BindFailed", "", "int64", TypeOf(a)), tgt>>
            ELSE <<NoError, [tgt EXCEPT ![tk] = a]>>
      [] tk = "*bool" ->
            IF TypeOf(a) # "bool"
            THEN <<Err("BindFailed", "", "bool", TypeOf(a)), tgt>>
            ELSE <<NoError, [tgt EXCEPT ![tk] = a]>>
      [] OTHER ->
            LET rt == jsonRoundTrip(a)
            IN  IF ~rt[1]
                THEN <<Err("BindFailed", "", tk, TypeOf(a)), tgt>>
                ELSE <<NoError, [tgt EXCEPT ![tk] = rt[2]]>>

\* the caller's predicate functions (CustomPredicate): the message of the
\* error they return, "" for nil
UserFns == {"isString", "never"}
CallUserFn(fn, a) ==
    CASE fn = "isString" ->
            IF TypeOf(a) = "string" THEN "" ELSE "not a string"
      [] OTHER -> "never satisfied"

\* Predicate(fn)(key, actual)
Predicate(fn, k, a) ==
    LET err == CallUserFn(fn, a)
    IN  IF err # "" THEN failedPredicateError(k, err) ELSE NoError

\* a CustomPredicateForKey applied to (key, actual)
CallLeaf(leaf, k, a, tgt) ==
    IF leaf[1] = "Bind" THEN Bind(leaf[2], k, a, tgt)
    ELSE <<Predicate(leaf[2], k, a), tgt>>

(***************************************************************************)
(* Strings in sort.Strings order (bytewise).                               *)
(***************************************************************************)
StrOrder == <<"X", "Y", "a", "b", "x">>
Rank(s) == CHOOSE i \in 1..Len(StrOrder) : StrOrder[i] = s

\* the sequence s with x inserted before the first greater element
RECURSIVE InsertSorted(_, _)
InsertSorted(x, s) ==
    IF s = <<>> THEN <<x>>
    ELSE IF Rank(x) <= Rank(Head(s)) THEN <<x>> \o s
    ELSE <<Head(s)>> \o InsertSorted(x, Tail(s))

\* sort.Strings(s)
RECURSIVE SortStrings(_)
SortStrings(s) ==
    IF s = <<>> THEN <<>> ELSE InsertSorted(Head(s), SortStrings(Tail(s)))

\* the keys of a map, appended in some iteration order, then sorted
RECURSIVE SortedKeys(_)
SortedKeys(S) ==
    IF S = {} THEN <<>>
    ELSE LET k == CHOOSE x \in S : TRUE
         IN  InsertSorted(k, SortedKeys(S \ {k}))

(***************************************************************************)
(* Outcomes of a call.  A call either returns its errors or panics; the    *)
(* iteration order of a Go map is unspecified, so a call has a set of      *)
(* possible outcomes.  visited lists the keys ValueForKey was entered      *)
(* with, in order; tgt is the Bind targets after the call.                 *)
(***************************************************************************)
Outcome(panic, errs, visited, tgt) ==
    [panic |-> panic, errs |-> errs, visited |-> visited, tgt |-> tgt]

Return(errs, tgt) == {Outcome(FALSE, errs, <<>>, tgt)}
Panic(tgt) == {Outcome(TRUE, <<>>, <<>>, tgt)}

\* the outcome of a loop after one more iteration whose outcome is o
Step(acc, o) ==
    Outcome(o.panic, IF o.panic THEN <<>> ELSE acc.errs \o o.errs,
            acc.visited \o o.visited, o.tgt)

Enter(k, outs) == {[o EXCEPT !.visited = <<k>> \o @] : o \in outs}

(***************************************************************************)
(* package expect                                                          *)
(***************************************************************************)
boolValForKey(k, e, a) ==
    IF TypeOf(a) # "bool" THEN wrongTypeError(k, e, a)
    ELSE IF Payload(a) # Payload(e) THEN wrongValueError(k, e, a)
    ELSE NoError

\* numValForKey asserting an int64 actual, as Bind does for an int64 target
numValForKey_AssertInt64(k, e, a) ==
    IF TypeOf(a) # "int64" THEN wrongTypeError(k, e, a)
    ELSE IF ~FloatEq(Payload(a), Payload(e)) THEN wrongValueError(k, e, a)
    ELSE NoError

\* e is the expected number as a float64
numValForKey(k, e, a) ==
    IF TypeOf(a) # "float64" THEN wrongTypeError(k, e, a)
    ELSE IF ~FloatEq(Payload(a), Payload(e)) THEN wrongValueError(k, e, a)
    ELSE NoError

\* strValForKey reporting a different string as a wrong type
strValForKey_WrongKind(k, e, a) ==
    IF TypeOf(a) # "string" THEN wrongTypeError(k, e, a)
    ELSE IF Payload(a) # Payload(e) THEN wrongTypeError(k, e, a)
    ELSE NoError

strValForKey(k, e, a) ==
    IF TypeOf(a) # "string" THEN wrongTypeError(k, e, a)
    ELSE IF Payload(a) # Payload(e) THEN wrongValueError(k, e, a)
    ELSE NoError

\* ExactMapCheck without the comparison of the sorted keys
ExactMapCheck_CountOnly(e, m) ==
    IF Cardinality(DOMAIN m) # Cardinality(DOMAIN e)
    THEN Err("WrongFieldCount", "", Cardinality(DOMAIN e), Cardinality(DOMAIN m))
    ELSE NoError

\* the Exact-mode checks of mapValForKey: the error they return, or NoError
ExactMapCheck(e, m) ==
    IF Cardinality(DOMAIN m) # Cardinality(DOMAIN e)
    THEN Err("WrongFieldCount", "", Cardinality(DOMAIN e), Cardinality(DOMAIN m))
    ELSE LET ek == SortedKeys(DOMAIN e)
             ak == SortedKeys(DOMAIN m)
             bad == {i \in 1..Len(ek) : ek[i] # ak[i]}
         IN  IF bad = {} THEN NoError
             ELSE LET i == CHOOSE j \in bad : \A j2 \in bad : j <= j2
                  IN  Err("WrongKey", "", ek[i], ak[i])

\* the Exact-mode check of arrayValForKey
ExactArrayCheck(e, s) ==
    IF Len(s) # Len(e) THEN Err("WrongElementCount", "", Len(e), Len(s))
    ELSE NoError

RECURSIVE ValueForKey(_, _, _, _, _)
RECURSIVE mapValForKey(_, _, _, _, _)
RECURSIVE arrayValForKey(_, _, _, _, _)
RECURSIVE RangeMap(_, _, _, _, _, _)
RECURSIVE RangeArray(_, _, _, _, _, _)

\* for k, v := range expected { ... }: rest is the keys not yet visited
RangeMap(k, e, m, ex, rest, acc) ==
    IF rest = {} THEN {acc}
    ELSE UNION {
           UNION { IF o.panic THEN {Step(acc, o)}
                   ELSE RangeMap(k, e, m, ex, rest \ {f}, Step(acc, o))
                   : o \in ValueForKey(k \o "." \o f, e[f], MapIndex(m, f),
                                       ex, acc.tgt) }
           : f \in rest }

\* mapValForKey with the Exact-mode checks applied in both modes
mapValForKey_AlwaysExact(k, e, a, ex, tgt) ==
    IF TypeOf(a) # "map[string]interface {}"
    THEN Return(<<wrongTypeError(k, Map(e), a)>>, tgt)
    ELSE IF ExactMapCheck(e, Payload(a)) # NoError
    THEN Return(<<ExactMapCheck(e, Payload(a))>>, tgt)
    ELSE RangeMap(k, e, Payload(a), ex, DOMAIN e,
                  Outcome(FALSE, <<>>, <<>>, tgt))

mapValForKey(k, e, a, ex, tgt) ==
    IF TypeOf(a) # "map[string]interface {}"
    THEN Return(<<wrongTypeError(k, Map(e), a)>>, tgt)
    ELSE IF ex /\ ExactMapCheck(e, Payload(a)) # NoError
    THEN Return(<<ExactMapCheck(e, Payload(a))>>, tgt)
    ELSE RangeMap(k, e, Payload(a), ex, DOMAIN e,
                  Outcome(FALSE, <<>>, <<>>, tgt))

\* for i, v := range expected { ... }: i is the next (1-based) index;
\* a[i] beyond the end of a panics
RangeArray(k, e, s, ex, i, acc) ==
    IF i > Len(e) THEN {acc}
    ELSE IF i > Len(s) THEN {Step(acc, Outcome(TRUE, <<>>, <<>>, acc.tgt))}
    ELSE UNION { IF o.panic THEN {Step(acc, o)}
                 ELSE RangeArray(k, e, s, ex, i + 1, Step(acc, o))
                 : o \in ValueForKey(k \o "[" \o ToString(i - 1) \o "]",
                                     e[i], s[i], ex, acc.tgt) }

\* arrayValForKey with the mode flag inverted: the count is checked in
\* Subset mode only
arrayValForKey_InvertedMode(k, e, a, ex, tgt) ==
    IF TypeOf(a) # "[]interface {}"
    THEN Return(<<wrongTypeError(k, Slice(e), a)>>, tgt)
    ELSE IF ~ex /\ ExactArrayCheck(e, Payload(a)) # NoError
    THEN Return(<<ExactArrayCheck(e, Payload(a))>>, tgt)
    ELSE RangeArray(k, e, Payload(a), ex, 1, Outcome(FALSE, <<>>, <<>>, tgt))

arrayValForKey(k, e, a, ex, tgt) ==
    IF TypeOf(a) # "[]interface {}"
    THEN Return(<<wrongTypeError(k, Slice(e), a)>>, tgt)
    ELSE IF ex /\ ExactArrayCheck(e, Payload(a)) # NoError
    THEN Return(<<ExactArrayCheck(e, Payload(a))>>, tgt)
    ELSE RangeArray(k, e, Payload(a), ex, 1, Outcome(FALSE, <<>>, <<>>, tgt))

ValueForKey(k, e, a, ex, tgt) ==
    LET t == TypeOf(e)
        p == Payload(e)
    IN  Enter(k,
          CASE t \in {"Object", "map[string]interface {}"} ->
                  mapValForKey(k, p, a, ex, tgt)
            [] t \in {"Array", "[]interface {}"} ->
                  arrayValForKey(k, p, a, ex, tgt)
            [] t = "string" -> Return(ErrList(strValForKey(k, e, a)), tgt)
            [] t = "*string" -> Return(<<Err("errors.New", "", "bar", "")>>, tgt)
            [] t = "float64" -> Return(ErrList(numValForKey(k, e, a)), tgt)
            [] t = "*float64" ->
                  IF p[1] THEN Panic(tgt)
                  ELSE Return(ErrList(numValForKey(k, Float64(p[2]), a)), tgt)
            [] t \in {"int", "int64"} ->
                  Return(ErrList(numValForKey(k, Float64(ToFloat64(p)), a)), tgt)
            [] t \in {"*int", "*int64"} ->
                  Return(<<Err("errors.New", "", "foo", "")>>, tgt)
            [] t = "bool" -> Return(ErrList(boolValForKey(k, e, a)), tgt)
            [] t = "CustomPredicateForKey" ->
                  LET r == CallLeaf(p, k, a, tgt)
                  IN  Return(ErrList(r[1]), r[2])
            [] OTHER ->
                  Return(<<Err("UnsupportedType", k, "", TypeOf(a))>>, tgt))

(***************************************************************************)
(* package mt: the same engine without Bind and pointer expectations; its  *)
(* predicate leaves are func(interface{}) bool.                            *)
(***************************************************************************)
expectBool(k, e, a) ==
    IF TypeOf(a) # "bool" THEN wrongTypeError(k, e, a)
    ELSE IF Payload(a) # Payload(e) THEN wrongValueError(k, e, a)
    ELSE NoError

expectNumber(k, e, a) ==
    IF TypeOf(a) # "float64" THEN wrongTypeError(k, e, a)
    ELSE IF ~FloatEq(Payload(a), Payload(e)) THEN wrongValueError(k, e, a)
    ELSE NoError

expectString(k, e, a) ==
    IF TypeOf(a) # "string" THEN wrongTypeError(k, e, a)
    ELSE IF Payload(a) # Payload(e) THEN wrongValueError(k, e, a)
    ELSE NoError

\* the caller's func(interface{}) bool
CallBoolFn(fn, a) ==
    CASE fn = "isString" -> TypeOf(a) = "string"
      [] OTHER -> FALSE

RECURSIVE expect(_, _, _, _, _)
RECURSIVE expectObject(_, _, _, _, _)
RECURSIVE expectArray(_, _, _, _, _)
RECURSIVE RangeObject(_, _, _, _, _, _)
RECURSIVE RangeElements(_, _, _, _, _, _)

RangeObject(k, e, m, ex, rest, acc) ==
    IF rest = {} THEN {acc}
    ELSE UNION {
           UNION { IF o.panic THEN {Step(acc, o)}
                   ELSE RangeObject(k, e, m, ex, rest \ {f}, Step(acc, o))
                   : o \in expect(k \o "." \o f, e[f], MapIndex(m, f),
                                  ex, acc.tgt) }
           : f \in rest }

expectObject(k, e, a, ex, tgt) ==
    IF TypeOf(a) # "map[string]interface {}"
    THEN Return(<<wrongTypeError(k, Map(e), a)>>, tgt)
    ELSE IF ex /\ ExactMapCheck(e, Payload(a)) # NoError
    THEN Return(<<ExactMapCheck(e, Payload(a))>>, tgt)
    ELSE RangeObject(k, e, Payload(a), ex, DOMAIN e,
                     Outcome(FALSE, <<>>, <<>>, tgt))

RangeElements(k, e, s, ex, i, acc) ==
    IF i > Len(e) THEN {acc}
    ELSE IF i > Len(s) THEN {Step(acc, Outcome(TRUE, <<>>, <<>>, acc.tgt))}
    ELSE UNION { IF o.panic THEN {Step(acc, o)}
                 ELSE RangeElements(k, e, s, ex, i + 1, Step(acc, o))
                 : o \in expect(k \o "[" \o ToString(i - 1) \o "]",
                                e[i], s[i], ex, acc.tgt) }

expectArray(k, e, a, ex, tgt) ==
    IF TypeOf(a) # "[]interface {}"
    THEN Return(<<wrongTypeError(k, Slice(e), a)>>, tgt)
    ELSE IF ex /\ ExactArrayCheck(e, Payload(a)) # NoError
    THEN Return(<<ExactArrayCheck(e, Payload(a))>>, tgt)
    ELSE RangeElements(k, e, Payload(a), ex, 1, Outcome(FALSE, <<>>, <<>>, tgt))

expect(k, e, a, ex, tgt) ==
    LET t == TypeOf(e)
        p == Payload(e)
    IN  Enter(k,
          CASE t \in {"Object", "map[string]interface {}"} ->
                  expectObject(k, p, a, ex, tgt)
            [] t \in {"Array", "[]interface {}"} ->
                  expectArray(k, p, a, ex, tgt)
            [] t = "string" -> Return(ErrList(expectString(k, e, a)), tgt)
            [] t = "float64" -> Return(ErrList(expectNumber(k, e, a)), tgt)
            [] t \in {"int", "int64"} ->
                  Return(ErrList(expectNumber(k, Float64(ToFloat64(p)), a)), tgt)
            [] t = "bool" -> Return(ErrList(expectBool(k, e, a)), tgt)
            [] t = "func(interface{}) bool" ->
                  IF ~CallBoolFn(p, a)
                  THEN Return(<<Err("PredicateFailed", k,
                                    "did not satisfy predicate", "")>>, tgt)
                  ELSE Return(<<>>, tgt)
            [] OTHER ->
                  Return(<<Err("UnsupportedType", k, "", TypeOf(a))>>, tgt))

\* Match of the specification: the entry point called, expect.ValueForKey
\* or mt.expect
Match(entry, k, e, a, ex, tgt) ==
    IF entry = "ValueForKey" THEN ValueForKey(k, e, a, ex, tgt)
    ELSE expect(k, e, a, ex, tgt)

(***************************************************************************)
(* Header matching.  An http.Header is a map from names to value lists;    *)
(* sort.Strings sorts the caller's slices in place, so a call also yields  *)
(* the header maps as it leaves them.                                      *)
(***************************************************************************)
HOutcome(errs, he, ha) == [errs |-> errs, he |-> he, ha |-> ha]

\* the sequence s without its first element equal to x
RECURSIVE RemoveFirst(_, _)
RemoveFirst(x, s) ==
    IF s = <<>> THEN <<>>
    ELSE IF Head(s) = x THEN Tail(s)
    ELSE <<Head(s)>> \o RemoveFirst(x, Tail(s))

\* ValueErrors with each matched actual value consumed (strict multiset)
RECURSIVE ValueErrors_Consuming(_, _, _)
ValueErrors_Consuming(name, evs, avs) ==
    IF evs = <<>> THEN <<>>
    ELSE IF \E j \in 1..Len(avs) : avs[j] = Head(evs)
    THEN ValueErrors_Consuming(name, Tail(evs), RemoveFirst(Head(evs), avs))
    ELSE <<Err("HeaderValueMismatch", name, Head(evs), avs)>>
         \o ValueErrors_Consuming(name, Tail(evs), avs)

\* the errors of the inner loops: one for each expected value, in order,
\* that no actual value equals
RECURSIVE ValueErrors(_, _, _)
ValueErrors(name, evs, avs) ==
    IF evs = <<>> THEN <<>>
    ELSE (IF \E j \in 1..Len(avs) : avs[j] = Head(evs) THEN <<>>
          ELSE <<Err("HeaderValueMismatch", name, Head(evs), avs)>>)
         \o ValueErrors(name, Tail(evs), avs)

\* one iteration of the loop over expected, for the header called name
HeaderStep(name, acc) ==
    IF name \notin DOMAIN acc.ha
    THEN [acc EXCEPT !.errs = @ \o <<Err("MissingHeader", name, "", <<>>)>>]
    ELSE LET evs == SortStrings(acc.he[name])
             avs == SortStrings(acc.ha[name])
         IN  HOutcome(acc.errs \o ValueErrors(name, evs, avs),
                      [acc.he EXCEPT ![name] = evs],
                      [acc.ha EXCEPT ![name] = avs])

RECURSIVE RangeHeaders(_, _)
RangeHeaders(rest, acc) ==
    IF rest = {} THEN {acc}
    ELSE UNION {RangeHeaders(rest \ {n}, HeaderStep(n, acc)) : n \in rest}

\* expect.Headers
Headers(e, a) == RangeHeaders(DOMAIN e, HOutcome(<<>>, e, a))

\* mt.expectHeaders
expectHeaders(e, a) == RangeHeaders(DOMAIN e, HOutcome(<<>>, e, a))

(***************************************************************************)
(* The inputs of the model.                                                *)
(***************************************************************************)
Keys == {"a", "b"}

\* the maps and arrays whose fields and elements are drawn from S
Containers(S) ==
    {Map(f) : f \in UNION {[D -> S] : D \in SUBSET Keys}}
    \cup {Slice(s) : s \in UNION {[1..n -> S] : n \in 0..MaxLen}}

\* a container around c, alone or beside the leaf l
Wrapped(C, l) ==
    UNION {{Map("a" :> c), Slice(<<c>>), Slice(<<l, c>>),
            Map("a" :> c @@ "b" :> l)} : c \in C}

\* the leaves of generated trees
ExpectedLeaves == {Str("x"), PredicateLeaf("isString"), BindLeaf("*string")}
ActualLeaves == {Str("x"), Str("y")}

\* 2^53 and 2^53 + 1
Big == Whole(2 ^ 26, 0)
BigPlusOne == Whole(2 ^ 26, 1)

ExpectedPrimitives ==
    {Str("x"), Str("y"), Bool(TRUE), Bool(FALSE),
     Float64(Small(1)), Float64(Small(43)), Float64(Big), Float64(NaN),
     Int64(Small(43)), Int64(BigPlusOne), GoInt(Small(43))}

ActualPrimitives ==
    {Nil, Str("x"), Str("y"), Bool(TRUE), Bool(FALSE),
     Float64(Small(1)), Float64(Small(43)), Float64(Big), Float64(NaN),
     Int64(Small(43)), GoInt(Small(43))}

\* expected values of the other types the type switches know or reject
OtherExpected ==
    {Nil, Val("*string", ""), Val("*int", ""), Val("*int64", ""),
     Val("*float64", <<FALSE, Small(1)>>), Val("*float64", <<TRUE, Small(0)>>),
     PredicateLeaf("never"), MtPredicate("isString"), MtPredicate("never"),
     Object(EmptyMap), Object("a" :> Str("x")), Array(<<Str("x")>>)}
    \cup {BindLeaf(tk) : tk \in TargetKinds}

\* the expected and actual values of a call: primitives and the like
\* against primitives and containers, or generated trees against generated
\* trees; the deeper trees only under the empty root key
ExpectedFlat == ExpectedPrimitives \cup OtherExpected
ActualFlat == ActualPrimitives \cup Containers(ActualLeaves)
ExpectedShallow == ExpectedLeaves \cup Containers(ExpectedLeaves)
ExpectedDeep == Wrapped(Containers(ExpectedLeaves), Str("x"))
ActualTrees ==
    {Nil} \cup ActualLeaves \cup Containers(ActualLeaves)
    \cup Wrapped(Containers(ActualLeaves), Str("x"))

RootKeys == {"", "body"}

ExpectedNames == {"X", "x"}
HeaderValues == {"a", "b"}
ValueLists == UNION {[1..n -> HeaderValues] : n \in 0..MaxVals}
ExpectedHeaders == UNION {[D -> ValueLists] : D \in SUBSET ExpectedNames}
\* actual headers: X with any values, Y (never expected) with one value
ActualHeaders ==
    UNION {{[n \in {} |-> <<>>], "Y" :> <<"a">>, "X" :> vs,
            "X" :> vs @@ "Y" :> <<"a">>} : vs \in ValueLists}

(***************************************************************************)
(* The state machine: one call of an entry point on inputs of the caller.  *)
(***************************************************************************)
MatchOps == {"ValueForKey", "expect"}
HeaderOps == {"Headers", "expectHeaders"}
NoHeaders == [n \in {} |-> <<>>]
NoResult == Outcome(FALSE, <<>>, <<>>, InitTargets)

Init ==
    /\ pc = "ready"
    /\ targets = InitTargets
    /\ result = NoResult
    /\ \/ /\ op \in MatchOps
          /\ \/ /\ key \in RootKeys
                /\ expected \in ExpectedFlat
                /\ actual \in ActualFlat
             \/ /\ key \in RootKeys
                /\ expected \in ExpectedShallow
                /\ actual \in ActualTrees
             \/ /\ key = ""
                /\ expected \in ExpectedDeep
                /\ actual \in ActualTrees
          /\ exact \in BOOLEAN
          /\ hexpected = NoHeaders
          /\ hactual = NoHeaders
       \/ /\ op \in HeaderOps
          /\ key = ""
          /\ expected = Nil
          /\ actual = Nil
          /\ exact = FALSE
          /\ hexpected \in ExpectedHeaders
          /\ hactual \in ActualHeaders

Finish(o) ==
    /\ result' = o
    /\ targets' = o.tgt
    /\ pc' = IF o.panic THEN "panicked" ELSE "returned"
    /\ UNCHANGED <<op, key, expected, actual, exact, hexpected, hactual>>

CallValueForKey ==
    /\ pc = "ready"
    /\ op = "ValueForKey"
    /\ \E o \in ValueForKey(key, expected, actual, exact, targets) : Finish(o)

CallExpect ==
    /\ pc = "ready"
    /\ op = "expect"
    /\ \E o \in expect(key, expected, actual, exact, targets) : Finish(o)

FinishHeaders(h) ==
    /\ result' = Outcome(FALSE, h.errs, <<>>, targets)
    /\ hexpected' = h.he
    /\ hactual' = h.ha
    /\ pc' = "returned"
    /\ UNCHANGED <<op, key, expected, actual, exact, targets>>

CallHeaders ==
    /\ pc = "ready"
    /\ op = "Headers"
    /\ \E h \in Headers(hexpected, hactual) : FinishHeaders(h)

CallExpectHeaders ==
    /\ pc = "ready"
    /\ op = "expectHeaders"
    /\ \E h \in expectHeaders(hexpected, hactual) : FinishHeaders(h)

Next == CallValueForKey \/ CallExpect \/ CallHeaders \/ CallExpectHeaders

Spec == Init /\ [][Next]_vars

(***************************************************************************)
(* Vocabulary of the claims.                                               *)
(***************************************************************************)
MapTypes == {"Object", "map[string]interface {}"}
ArrayTypes == {"Array", "[]interface {}"}
IsActualMap(a) == TypeOf(a) = "map[string]interface {}"
IsActualArray(a) == TypeOf(a) = "[]interface {}"

Called == pc # "ready" /\ op \in MatchOps
Returned == pc = "returned" /\ op \in MatchOps

\* every possible outcome of the call the state is about, on fresh targets
Outcomes(e, a, ex) == Match(op, key, e, a, ex, InitTargets)

\* what may be added to an actual value beyond the expected content
Extras == {Nil, Str("y"), Map("a" :> Str("y"))}
ExtraKeys == Keys \cup {"c"}
ExtraTails == UNION {[1..n -> Extras] : n \in 1..2}

\* C1: in Subset mode, an actual object with a further key that is not
\* expected, and an actual array at least as long as the expected one with
\* further elements appended, give exactly the outcomes of the call without
\* them (same errors, same visits, same bindings).
C1_SubsetIgnoresExtras ==
    (Called /\ ~exact) =>
        /\ result \in Outcomes(expected, actual, FALSE)
        /\ (TypeOf(expected) \in MapTypes /\ IsActualMap(actual)) =>
              \A k \in ExtraKeys \ DOMAIN Payload(expected) : \A v \in Extras :
                  Outcomes(expected,
                           Map([f \in DOMAIN Payload(actual) \cup {k} |->
                                  IF f = k THEN v ELSE Payload(actual)[f]]),
                           FALSE)
                  = Outcomes(expected, actual, FALSE)
        /\ (/\ TypeOf(expected) \in ArrayTypes
            /\ IsActualArray(actual)
            /\ Len(Payload(actual)) >= Len(Payload(expected))) =>
              \A tail \in ExtraTails :
                  Outcomes(expected, Slice(Payload(actual) \o tail), FALSE)
                  = Outcomes(expected, actual, FALSE)

\* {"a": "x"} against {"a": "x", "b": "y"} and ["x"] against ["x", "y"] in
\* Subset mode returned no error
C1_Witness ==
    /\ Returned /\ ~exact
    /\ \/ /\ expected = Map("a" :> Str("x"))
          /\ actual = Map("a" :> Str("x") @@ "b" :> Str("y"))
       \/ /\ expected = Slice(<<Str("x")>>)
          /\ actual = Slice(<<Str("x"), Str("y")>>)
    /\ result.errs = <<>>

\* the comparisons the engine reaches below the root: <<path, expected,
\* actual>> for every child of a container that passes its shape and
\* Exact-mode checks, to any depth
ShapeOK(e, a) ==
    \/ TypeOf(e) \in MapTypes /\ IsActualMap(a)
    \/ TypeOf(e) \in ArrayTypes /\ IsActualArray(a)

CountsDiffer(e, a) ==
    IF TypeOf(e) \in MapTypes
    THEN Cardinality(DOMAIN Payload(e)) # Cardinality(DOMAIN Payload(a))
    ELSE Len(Payload(e)) # Len(Payload(a))

KeySetsDiffer(e, a) ==
    TypeOf(e) \in MapTypes /\ DOMAIN Payload(e) # DOMAIN Payload(a)

IsContainer(e) == TypeOf(e) \in MapTypes \cup ArrayTypes

\* the subtree-level failures: wrong shape, or in Exact mode a different
\* count, or equal counts and different key sets
SubtreeFails(e, a, ex) ==
    /\ IsContainer(e)
    /\ \/ ~ShapeOK(e, a)
       \/ ex /\ CountsDiffer(e, a)
       \/ ex /\ ~CountsDiffer(e, a) /\ KeySetsDiffer(e, a)

ChildPaths(k, e) ==
    IF TypeOf(e) \in MapTypes THEN {k \o "." \o f : f \in DOMAIN Payload(e)}
    ELSE IF TypeOf(e) \in ArrayTypes
    THEN {k \o "[" \o ToString(i - 1) \o "]" : i \in 1..Len(Payload(e))}
    ELSE {}

RECURSIVE Reached(_, _, _, _)
Reached(k, e, a, ex) ==
    {<<k, e, a>>} \cup
    IF ~IsContainer(e) \/ SubtreeFails(e, a, ex) THEN {}
    ELSE IF TypeOf(e) \in MapTypes
    THEN UNION {Reached(k \o "." \o f, Payload(e)[f],
                        MapIndex(Payload(a), f), ex) : f \in DOMAIN Payload(e)}
    ELSE UNION {Reached(k \o "[" \o ToString(i - 1) \o "]", Payload(e)[i],
                        Payload(a)[i], ex)
                : i \in 1..(IF Len(Payload(e)) < Len(Payload(a))
                            THEN Len(Payload(e)) ELSE Len(Payload(a)))}

Visited == {result.visited[i] : i \in 1..Len(result.visited)}

\* C2: wherever the comparison reaches an expected object or array whose
\* actual value has the wrong shape, or in Exact mode a different count, or
\* the same count and another key set, that subtree yields exactly one
\* error, binds nothing, and none of its expected children is visited.
C2_SubtreeFailureIsOneError ==
    Called =>
        \A r \in Reached(key, expected, actual, exact) :
            SubtreeFails(r[2], r[3], exact) =>
                /\ \A o \in Match(op, r[1], r[2], r[3], exact, InitTargets) :
                      /\ ~o.panic
                      /\ Len(o.errs) = 1
                      /\ o.visited = <<r[1]>>
                      /\ o.tgt = InitTargets
                /\ ChildPaths(r[1], r[2]) \cap Visited = {}
                /\ (r[1] = key) =>
                      /\ pc = "returned"
                      /\ Len(result.errs) = 1
                      /\ result.visited = <<key>>
                      /\ targets = InitTargets

\* Exact mode, {"a": Bind(&s)} against {"b": "x"}: one error, s not bound
C2_Witness ==
    /\ Returned /\ exact /\ op = "ValueForKey"
    /\ expected = Map("a" :> BindLeaf("*string"))
    /\ actual = Map("b" :> Str("x"))
    /\ Len(result.errs) = 1
    /\ ErrKind(result.errs[1]) = "WrongKey"
    /\ targets = InitTargets

PrimitiveTypes == {"string", "bool", "float64", "int", "int64"}
IntegerTypes == {"int", "int64"}
NoErrors == pc = "returned" /\ result.errs = <<>>
OneError(kind) ==
    /\ pc = "returned"
    /\ Len(result.errs) = 1
    /\ ErrKind(result.errs[1]) = kind
    /\ ErrKey(result.errs[1]) = key

\* the number is below 2^53, where float64 holds every integer
Below2Pow53(n) == n[1] = "num" /\ n[2] < 2 ^ 26

\* C3 as claimed: in Exact mode with the empty root key every primitive v,
\* integer-typed ones included, matches itself (NaN left aside), and an
\* expected integer matches the actual float of the same value.
C3_Original ==
    (Called /\ exact /\ key = "" /\ TypeOf(expected) \in PrimitiveTypes) =>
        /\ (actual = expected /\ expected # Float64(NaN)) => NoErrors
        /\ (/\ TypeOf(expected) \in IntegerTypes
            /\ actual = Float64(Payload(expected))) => NoErrors

\* C3 amended: every string, boolean and non-NaN float64 matches itself, and
\* an expected int or int64 below 2^53 matches the actual float64 of the same
\* value; an integer-typed actual is a wrong type even against itself, and
\* NaN is a wrong value against itself.
C3_ReflexiveOnDecodedPrimitives ==
    (Called /\ exact) =>
        /\ (TypeOf(expected) \in {"string", "bool"} /\ actual = expected)
              => NoErrors
        /\ (/\ TypeOf(expected) = "float64"
            /\ Payload(expected) # NaN
            /\ actual = expected) => NoErrors
        /\ (/\ TypeOf(expected) \in IntegerTypes
            /\ Below2Pow53(Payload(expected))
            /\ actual = Float64(Payload(expected))) => NoErrors
        /\ (TypeOf(expected) \in IntegerTypes /\ actual = expected)
              => OneError("WrongType")
        /\ (expected = Float64(NaN) /\ actual = expected)
              => OneError("WrongValue")

\* expected int64 43 against actual float64 43 in Exact mode: no error
C3_Witness ==
    /\ Returned /\ exact
    /\ expected = Int64(Small(43))
    /\ actual = Float64(Small(43))
    /\ result.errs = <<>>

\* the primitive kinds of the specification
Kind(v) ==
    CASE TypeOf(v) = "string" -> "string"
      [] TypeOf(v) = "bool" -> "boolean"
      [] OTHER -> "number"

\* C4 as claimed: for primitives e and a, in either mode, one WrongValue
\* error when they are of the same kind (string, number, boolean) and differ
\* in value, one WrongType error when they are of different kinds, and never
\* more than one error.
C4_Original ==
    (/\ Called
     /\ TypeOf(expected) \in PrimitiveTypes
     /\ TypeOf(actual) \in PrimitiveTypes) =>
        /\ pc = "returned"
        /\ Len(result.errs) <= 1
        /\ (Kind(expected) = Kind(actual) /\ Payload(expected) # Payload(actual))
              => OneError("WrongValue")
        /\ (Kind(expected) # Kind(actual)) => OneError("WrongType")

\* the Go type an expected primitive is compared as
ComparedAs(e) ==
    IF TypeOf(e) \in {"string", "bool"} THEN TypeOf(e) ELSE "float64"

\* C4 amended: an expected primitive is compared as a string, a bool or, for
\* every numeric type, a float64.  An actual of another Go type (nil and
\* integer-typed actuals included) gives one WrongType error; an actual of
\* that type gives one WrongValue error when it differs from the expected
\* value (NaN differs from everything) and no error otherwise, where an
\* expected integer stands for the float64 it converts to: itself below
\* 2^53, and 2^53 for 2^53 + 1.
C4_ScalarClassification ==
    (/\ Called
     /\ TypeOf(expected) \in PrimitiveTypes
     /\ TypeOf(actual) \in PrimitiveTypes \cup {"nil"}) =>
        /\ pc = "returned"
        /\ Len(result.errs) <= 1
        /\ (TypeOf(actual) # ComparedAs(expected)) => OneError("WrongType")
        /\ (/\ TypeOf(actual) = ComparedAs(expected)
            /\ ComparedAs(expected) # "float64") =>
              IF Payload(actual) # Payload(expected)
              THEN OneError("WrongValue") ELSE NoErrors
        /\ (/\ TypeOf(actual) = "float64"
            /\ ComparedAs(expected) = "float64"
            /\ \/ TypeOf(expected) = "float64"
               \/ Below2Pow53(Payload(expected))) =>
              IF \/ Payload(actual) # Payload(expected)
                 \/ Payload(actual) = NaN
              THEN OneError("WrongValue") ELSE NoErrors
        /\ (expected = Int64(BigPlusOne) /\ TypeOf(actual) = "float64") =>
              IF actual = Float64(Big) THEN NoErrors
              ELSE OneError("WrongValue")

\* "x" expected, "y" found: one WrongValue; true expected, "y" found: one
\* WrongType
C4_Witness ==
    /\ Returned
    /\ \/ expected = Str("x") /\ actual = Str("y")
             /\ ErrKind(result.errs[1]) = "WrongValue"
       \/ expected = Bool(TRUE) /\ actual = Str("y")
             /\ ErrKind(result.errs[1]) = "WrongType"
    /\ Len(result.errs) = 1

\* C5 as claimed: a call never aborts; in Subset mode with an expected array
\* longer than the actual one it returns, with an error for every expected
\* index the actual array does not have.
C5_NeverAborts ==
    Called =>
        /\ pc # "panicked"
        /\ (/\ ~exact
            /\ TypeOf(expected) \in ArrayTypes
            /\ IsActualArray(actual)
            /\ Len(Payload(expected)) > Len(Payload(actual))) =>
              \A i \in (Len(Payload(actual)) + 1)..Len(Payload(expected)) :
                  \E j \in 1..Len(result.errs) :
                      ErrKey(result.errs[j])
                          = key \o "[" \o ToString(i - 1) \o "]"

\* the comparisons of the children of an expected container: <<path,
\* expected child, actual child>>, nil standing for a missing actual
Children(k, e, a) ==
    IF TypeOf(e) \in MapTypes
    THEN {<<k \o "." \o f, Payload(e)[f], MapIndex(Payload(a), f)>>
          : f \in DOMAIN Payload(e)}
    ELSE {<<k \o "[" \o ToString(i - 1) \o "]", Payload(e)[i],
            IF i <= Len(Payload(a)) THEN Payload(a)[i] ELSE Nil>>
          : i \in 1..Len(Payload(e))}

\* the number of errors a comparison returns on its own
ErrorCount(c) ==
    Len((CHOOSE o \in Match(op, c[1], c[2], c[3], exact, InitTargets) : TRUE).errs)

RECURSIVE SumOfErrorCounts(_)
SumOfErrorCounts(C) ==
    IF C = {} THEN 0
    ELSE LET c == CHOOSE x \in C : TRUE
         IN  ErrorCount(c) + SumOfErrorCounts(C \ {c})

\* C6 as claimed: a container that passes its shape and Exact-mode checks
\* has every expected child compared, and returns as many errors as its
\* children return together.
C6_NoShortCircuit ==
    (Called /\ IsContainer(expected)
        /\ ~SubtreeFails(expected, actual, exact)) =>
        /\ pc = "returned"
        /\ ChildPaths(key, expected) \subseteq Visited
        /\ Len(result.errs)
              = SumOfErrorCounts(Children(key, expected, actual))

\* the paths of the leaves of an expected value
RECURSIVE LeafPaths(_, _)
LeafPaths(k, e) ==
    IF TypeOf(e) \in MapTypes
    THEN UNION {LeafPaths(k \o "." \o f, Payload(e)[f]) : f \in DOMAIN Payload(e)}
    ELSE IF TypeOf(e) \in ArrayTypes
    THEN UNION {LeafPaths(k \o "[" \o ToString(i - 1) \o "]", Payload(e)[i])
                : i \in 1..Len(Payload(e))}
    ELSE {k}

\* the errors of scalar, predicate and bind leaves
IsLeafError(er) ==
    \/ ErrKind(er) \in {"WrongValue", "PredicateFailed", "BindFailed"}
    \/ ErrKind(er) = "WrongType"
         /\ er[3] \notin {"map[string]interface {}", "[]interface {}"}

\* C7 as claimed: every error of a mismatching leaf carries the path of
\* that leaf, built from the root key with ".key" and "[i]".
C7_PathAccuracy ==
    Returned =>
        \A j \in 1..Len(result.errs) :
            IsLeafError(result.errs[j]) =>
                ErrKey(result.errs[j]) \in LeafPaths(key, expected)

CalledHeaders == pc = "returned" /\ op \in HeaderOps
Range(s) == {s[i] : i \in 1..Len(s)}
ErrorsOf(kind, name) ==
    {j \in 1..Len(result.errs) :
        ErrKind(result.errs[j]) = kind /\ ErrKey(result.errs[j]) = name}

\* C8: for a header name in both maps there is one HeaderValueMismatch error
\* for each occurrence of an expected value that is no actual value, and none
\* for the others, whatever the order and however often an actual value is
\* used; a name that is only in actual gives no error.
C8_HeaderMembership ==
    CalledHeaders =>
        /\ \A n \in DOMAIN hexpected \cap DOMAIN hactual :
              /\ Cardinality(ErrorsOf("HeaderValueMismatch", n))
                   = Cardinality({i \in 1..Len(hexpected[n]) :
                                    hexpected[n][i] \notin Range(hactual[n])})
              /\ \A j \in ErrorsOf("HeaderValueMismatch", n) :
                    /\ result.errs[j][3] \in Range(hexpected[n])
                    /\ result.errs[j][3] \notin Range(hactual[n])
        /\ \A j \in 1..Len(result.errs) :
              /\ ErrKey(result.errs[j]) \in DOMAIN hexpected
              /\ ErrKind(result.errs[j]) = "HeaderValueMismatch"
                    => ErrKey(result.errs[j]) \in DOMAIN hactual

\* expected X: a, a against actual X: a returned no error, and expected
\* X: a against actual X: b, a returned no error
C8_Witness ==
    /\ CalledHeaders
    /\ "X" \in DOMAIN hexpected /\ "X" \in DOMAIN hactual
    /\ \/ hexpected["X"] = <<"a", "a">> /\ hactual["X"] = <<"a">>
       \/ hexpected["X"] = <<"b">> /\ hactual["X"] = <<"a", "b">>
    /\ result.errs = <<>>

\* header names with their letters in lower case
Lower(n) ==
    CASE n = "X" -> "x"
      [] n = "Y" -> "y"
      [] OTHER -> n

\* C9 as claimed: an expected header name gives one MissingHeader error
\* exactly when no actual name equals it ignoring case.
C9_CaseInsensitiveLookup ==
    CalledHeaders =>
        \A n \in DOMAIN hexpected :
            /\ Cardinality(ErrorsOf("MissingHeader", n)) <= 1
            /\ Cardinality(ErrorsOf("MissingHeader", n)) = 1
                  <=> ~\E m \in DOMAIN hactual : Lower(m) = Lower(n)

\* C10 as claimed: a call leaves the expected and actual values and both
\* header maps, the order of the value lists included, as they were; only a
\* Bind target is written.
C10_InputsUnchanged ==
    [][/\ expected' = expected
       /\ actual' = actual
       /\ hexpected' = hexpected
       /\ hactual' = hactual]_vars

\* the Go type a scalar target receives
TargetType(tk) ==
    CASE tk = "*string" -> "string"
      [] tk = "*float64" -> "float64"
      [] tk = "*int64" -> "int64"
      [] OTHER -> "bool"

IsScalarBind(e) ==
    /\ TypeOf(e) = "CustomPredicateForKey"
    /\ Payload(e)[1] = "Bind"
    /\ Payload(e)[2] \in ScalarTargets

\* values the caller's variables may hold before the call
SetTargets ==
    [tk \in TargetKinds |->
        CASE tk = "*string" -> Str("y")
          [] tk = "*float64" -> Float64(Small(1))
          [] tk = "*int64" -> Int64(Small(1))
          [] tk = "*bool" -> Bool(TRUE)
          [] OTHER -> Str("y")]
PriorTargets == {InitTargets, SetTargets}

\* the outcome of a Bind on the scalar target tk against a, with the targets
\* tgt before the call: bound without error when a has the target's type,
\* else one BindFailed error and every target as it was
BindsOrFails(o, tk, a, tgt) ==
    /\ ~o.panic
    /\ IF TypeOf(a) = TargetType(tk)
       THEN o.errs = <<>> /\ o.tgt = [tgt EXCEPT ![tk] = a]
       ELSE /\ Len(o.errs) = 1
            /\ ErrKind(o.errs[1]) = "BindFailed"
            /\ o.tgt = tgt

\* C11: a Bind on a string, float64, int64 or bool pointer, at the root or
\* wherever the comparison reaches it, sets the target to the actual value
\* and returns no error when the actual value has the target's type; for an
\* actual value of any other type (object, array and missing value included)
\* it returns exactly one BindFailed error and the target keeps the value it
\* had, whatever that value was.
C11_ScalarBind ==
    (Called /\ op = "ValueForKey") =>
        /\ IsScalarBind(expected) =>
              BindsOrFails(result, Payload(expected)[2], actual, InitTargets)
        /\ \A r \in Reached(key, expected, actual, exact) :
              IsScalarBind(r[2]) =>
                  \A tgt \in PriorTargets :
                      \A o \in ValueForKey(r[1], r[2], r[3], exact, tgt) :
                          BindsOrFails(o, Payload(r[2])[2], r[3], tgt)

\* Bind(&s) against "x" bound s without error, and Bind(&s) against an
\* object returned one BindFailed error with s still ""
C11_Witness ==
    /\ Returned /\ op = "ValueForKey"
    /\ expected = BindLeaf("*string")
    /\ \/ /\ actual = Str("x")
          /\ result.errs = <<>>
          /\ targets["*string"] = Str("x")
       \/ /\ actual = Map("a" :> Str("x"))
          /\ Len(result.errs) = 1
          /\ ErrKind(result.errs[1]) = "BindFailed"
          /\ targets["*string"] = Str("")

\* the call failed: it aborted or returned at least one error
Failed(o) == o.panic \/ o.errs # <<>>

\* C12 as claimed: a call that returns no error in Exact mode returns none
\* in Subset mode, and the Exact-mode checks only ever add errors: a call
\* that returns in Subset mode returns at least as many errors in Exact mode.
C12_Original ==
    (Called /\ exact /\ pc = "returned") =>
        \A o \in Outcomes(expected, actual, FALSE) :
            /\ (result.errs = <<>>) => (~o.panic /\ o.errs = <<>>)
            /\ ~o.panic => Len(o.errs) <= Len(result.errs)

\* C12 amended: a call that returns no error in Exact mode has in Subset
\* mode exactly the outcomes it has in Exact mode (no error, the same
\* bindings), and a call that fails in Subset mode fails in Exact mode.  A
\* failed Exact-mode check stands for its whole subtree, so the error list
\* of Exact mode is neither longer than nor a superset of that of Subset
\* mode in general; it is merely non-empty whenever the latter is.
C12_ExactImpliesSubset ==
    Called =>
        /\ (exact /\ NoErrors) =>
              /\ Outcomes(expected, actual, FALSE)
                    = Outcomes(expected, actual, TRUE)
              /\ \A o \in Outcomes(expected, actual, FALSE) : ~Failed(o)
        /\ (~exact /\ Failed(result)) =>
              \A o \in Outcomes(expected, actual, TRUE) : Failed(o)

\* {"a": {"a": "x", "b": "x"}} against {"a": {"a": "x", "b": "x"}} returned
\* no error in Exact mode, and against {"a": {"a": "y", "b": "y"}, "b": "x"}
\* one error in Exact mode where Subset mode returns two
C12_Witness ==
    /\ Returned /\ exact
    /\ expected = Map("a" :> Map("a" :> Str("x") @@ "b" :> Str("x")))
    /\ \/ /\ actual = expected
          /\ result.errs = <<>>
       \/ /\ actual = Map("a" :> Map("a" :> Str("y") @@ "b" :> Str("y"))
                          @@ "b" :> Str("x"))
          /\ Len(result.errs) = 1
          /\ \A o \in Outcomes(expected, actual, FALSE) : Len(o.errs) = 2

====
